---- MODULE Spec2Model ----
(***************************************************************************)
(* calctl: the event store engine of src/src/calctl/core.py over the       *)
(* persistence collaborator of src/src/calctl/storage.py.                  *)
(*                                                                         *)
(* Representation of the Python values:                                    *)
(*   str                a sequence of one-character strings                *)
(*   Optional[x]        <<>> for None, <<x>> for a value (None, Some)      *)
(*   "YYYY-MM-DD"       <<y, m, d>>; the zero-padded text compares like    *)
(*                      the triple compares lexicographically              *)
(*   "HH:MM"            <<h, m>>, same remark                              *)
(*   raw date input     <<y, m, d>>, <<>> for "", an impossible triple for *)
(*                      a text dateutil cannot resolve                     *)
(*   raw time input     <<h, m>> or <<h, m, s>>, <<>> for ""               *)
(*   date text with a   <<y, m, d, h, mi>> (delete_events_by_date and the  *)
(*   time of day        from/to bounds of list_events)                     *)
(*   datetime           minutes since 0001-01-01T00:00 (ordinal day - 1)   *)
(*   datetime.now()     the variable clock, in tenths of a second since    *)
(*                      midnight of EpochDate                              *)
(*   the store file     the variable db: its state ("missing", "list",     *)
(*                      "partial" while being rewritten, "unparseable"     *)
(*                      for text that is not JSON, "undecodable" for bytes *)
(*                      that are not UTF-8 text, "not_list") and the       *)
(*                      events its text holds                              *)
(*   invocations that   the variable running: per process, the position    *)
(*   run side by side   and the locals of an add_event under way           *)
(***************************************************************************)
EXTENDS Integers, Sequences, FiniteSets, TLC

VARIABLES db, clock, last, running

vars == <<db, clock, last, running>>

(***************************************************************************)
(* Bounds of the model.                                                    *)
(***************************************************************************)
MaxEvents == 2
NumIds == 3
MaxClock == 2

(***************************************************************************)
(* Program constants.                                                      *)
(***************************************************************************)
SleepTicks == 2
TicksPerSecond == 10
MinutesPerDay == 1440

None == <<>>
Some(x) == <<x>>

IdSpace == 1..NumIds

(***************************************************************************)
(* storage.py                                                              *)
(***************************************************************************)
load_events(file) ==
    IF file.state = "missing" THEN <<>>
    ELSE IF file.state = "list" THEN file.events
    ELSE <<>>

(* json.JSONDecodeError is the one error load_events catches: a file whose *)
(* bytes are not UTF-8 text makes the read itself raise.                 *)
load_raises(file) == file.state = "undecodable"

save_events_DropsEmpty(events) ==
    IF events = <<>> THEN [state |-> "missing", events |-> <<>>]
    ELSE [state |-> "list", events |-> events]

save_events(events) == [state |-> "list", events |-> events]

(***************************************************************************)
(* datetime arithmetic used by Event.get_start_datetime / get_end_datetime *)
(***************************************************************************)
is_leap(y) == (y % 4 = 0) /\ ((y % 100 # 0) \/ (y % 400 = 0))

days_in_month(y, m) ==
    IF m = 2 THEN (IF is_leap(y) THEN 29 ELSE 28)
    ELSE IF m \in {4, 6, 9, 11} THEN 30 ELSE 31

days_before_month(y, m) ==
    <<0, 31, 59, 90, 120, 151, 181, 212, 243, 273, 304, 334>>[m]
        + (IF m > 2 /\ is_leap(y) THEN 1 ELSE 0)

days_before_year(y) ==
    LET p == y - 1 IN p * 365 + (p \div 4) - (p \div 100) + (p \div 400)

toordinal(date) ==
    days_before_year(date[1]) + days_before_month(date[1], date[2]) + date[3]

strftime_HM(minutes) ==
    <<(minutes % MinutesPerDay) \div 60, minutes % 60>>

_to_iso(ticks) == ticks \div TicksPerSecond

get_start_datetime_TimeOnly(e) == e.start_time[1] * 60 + e.start_time[2]

get_start_datetime(e) ==
    (toordinal(e.date) - 1) * MinutesPerDay + e.start_time[1] * 60 + e.start_time[2]

get_end_datetime_SameDay(e) ==
    (toordinal(e.date) - 1) * MinutesPerDay
        + ((e.start_time[1] * 60 + e.start_time[2] + e.duration) % MinutesPerDay)

get_end_datetime(e) == get_start_datetime(e) + e.duration

(***************************************************************************)
(* _parse_date_time: dateutil resolves the text or raises; the results are *)
(* re-formatted as %Y-%m-%d and %H:%M (seconds are dropped).               *)
(***************************************************************************)
date_parses(date_str) ==
    /\ Len(date_str) = 3
    /\ date_str[1] \in 1..9999
    /\ date_str[2] \in 1..12
    /\ date_str[3] >= 1
    /\ date_str[3] <= days_in_month(date_str[1], date_str[2])

time_parses(time_str) ==
    /\ Len(time_str) \in {2, 3}
    /\ time_str[1] \in 0..23
    /\ time_str[2] \in 0..59
    /\ (Len(time_str) = 3 => time_str[3] \in 0..59)

parse_dt_ok(date_str, time_str) ==
    IF time_str # <<>>
    THEN date_parses(date_str) /\ time_parses(time_str)
    ELSE date_parses(date_str)

_parse_date_time(date_str, time_str) ==
    IF time_str # <<>>
    THEN <<date_str, <<time_str[1], time_str[2]>>>>
    ELSE <<date_str, <<0, 0>>>>

(***************************************************************************)
(* str.strip                                                               *)
(***************************************************************************)
IsSpace(c) == c = " "

RECURSIVE lstrip(_)
lstrip(s) ==
    IF s = <<>> THEN <<>>
    ELSE IF IsSpace(Head(s)) THEN lstrip(Tail(s)) ELSE s

RECURSIVE rstrip(_)
rstrip(s) ==
    IF s = <<>> THEN <<>>
    ELSE IF IsSpace(s[Len(s)]) THEN rstrip(SubSeq(s, 1, Len(s) - 1)) ELSE s

strip_LeftOnly(s) == lstrip(s)

strip(s) == rstrip(lstrip(s))

strip_opt(o) == IF o # None /\ o[1] # <<>> THEN Some(strip(o[1])) ELSE None

(***************************************************************************)
(* _generate_short_id draws any id of the id space.  _ensure_unique_id     *)
(* gives the set of ids its loop can leave with: the proposed id when it   *)
(* is free, else any later draw that is free (none: the loop never ends).  *)
(***************************************************************************)
_generate_short_id_Lowest == {1}

_generate_short_id == IdSpace

existing_ids(events) == {events[i].id : i \in 1..Len(events)}

_ensure_unique_id_Taken(events, proposed_id) == {proposed_id}

_ensure_unique_id(events, proposed_id) ==
    IF proposed_id \in existing_ids(events)
    THEN _generate_short_id \ existing_ids(events)
    ELSE {proposed_id}

(***************************************************************************)
(* _check_conflicts                                                        *)
(***************************************************************************)
intervals_intersect_Closed(new_start, new_end, existing_start, existing_end) ==
    new_start <= existing_end /\ new_end >= existing_start

intervals_intersect_OneSided(new_start, new_end, existing_start, existing_end) ==
    new_start < existing_end /\ new_end >= existing_start

intervals_intersect(new_start, new_end, existing_start, existing_end) ==
    new_start < existing_end /\ new_end > existing_start

is_excluded(event, exclude_id) == exclude_id # None /\ event.id = exclude_id[1]

RECURSIVE check_conflicts_from(_, _, _, _, _)
check_conflicts_from(events, new_start, new_end, exclude_id, i) ==
    IF i > Len(events) THEN <<>>
    ELSE IF is_excluded(events[i], exclude_id)
         THEN check_conflicts_from(events, new_start, new_end, exclude_id, i + 1)
    ELSE IF intervals_intersect(new_start, new_end,
                                get_start_datetime(events[i]),
                                get_end_datetime(events[i]))
         THEN <<events[i]>>
                  \o check_conflicts_from(events, new_start, new_end, exclude_id, i + 1)
         ELSE check_conflicts_from(events, new_start, new_end, exclude_id, i + 1)

_check_conflicts_SkipLast(events, new_event, exclude_id) ==
    check_conflicts_from(SubSeq(events, 1, Len(events) - 1),
                         get_start_datetime(new_event), get_end_datetime(new_event),
                         exclude_id, 1)

_check_conflicts_Break(events, new_event, exclude_id) ==
    LET hits == {i \in 1..Len(events) : is_excluded(events[i], exclude_id)}
        stop == IF hits = {} THEN Len(events) + 1
                ELSE CHOOSE i \in hits : \A j \in hits : i <= j
    IN  check_conflicts_from(SubSeq(events, 1, stop - 1),
                             get_start_datetime(new_event), get_end_datetime(new_event),
                             exclude_id, 1)

_check_conflicts(events, new_event, exclude_id) ==
    LET new_start == get_start_datetime(new_event)
        new_end == get_end_datetime(new_event)
    IN  check_conflicts_from(events, new_start, new_end, exclude_id, 1)

(***************************************************************************)
(* events.sort(key=lambda e: (e["date"], e["start_time"])): stable.        *)
(***************************************************************************)
sort_key_TimeOnly(e) == <<e.start_time[1], e.start_time[2]>>

sort_key(e) == <<e.date[1], e.date[2], e.date[3], e.start_time[1], e.start_time[2]>>

RECURSIVE lex_less(_, _)
lex_less(a, b) ==
    IF a = <<>> THEN b # <<>>
    ELSE IF b = <<>> THEN FALSE
    ELSE IF Head(a) # Head(b) THEN Head(a) < Head(b)
    ELSE lex_less(Tail(a), Tail(b))

RECURSIVE insert_sorted(_, _)
insert_sorted(sorted, e) ==
    IF sorted = <<>> THEN <<e>>
    ELSE IF lex_less(sort_key(e), sort_key(Head(sorted)))
         THEN <<e>> \o sorted
         ELSE <<Head(sorted)>> \o insert_sorted(Tail(sorted), e)

RECURSIVE sort_events(_)
sort_events(events) ==
    IF events = <<>> THEN <<>>
    ELSE CHOOSE s \in {insert_sorted(front, events[Len(events)]) :
                          front \in {sort_events(SubSeq(events, 1, Len(events) - 1))}} :
             TRUE

(***************************************************************************)
(* add_event                                                               *)
(***************************************************************************)
add_missing_required(title, date, time) ==
    title = <<>> \/ date = <<>> \/ time = <<>>

add_duration_invalid_Negative(duration) == duration < 0

add_duration_invalid(duration) == duration <= 0

add_skips_conflict_check_Never(force) == FALSE

add_skips_conflict_check(force) == force

new_event(event_id, title, parsed, duration, location, description, now) ==
    [id |-> event_id,
     title |-> strip(title),
     date |-> parsed[1],
     start_time |-> parsed[2],
     duration |-> duration,
     location |-> strip_opt(location),
     description |-> strip_opt(description),
     created |-> now,
     updated |-> now]

Outcome(op, outcome, args, result, detector) ==
    [op |-> op, outcome |-> outcome, args |-> args, prev |-> db,
     result |-> result, detector |-> detector]

Detector(candidate, exclude_id, conflicts) ==
    Some([candidate |-> candidate, exclude_id |-> exclude_id, conflicts |-> conflicts])

AddEvent(title, date, time, duration, location, description, force) ==
    LET args == [title |-> title, date |-> date, time |-> time,
                 duration |-> duration, location |-> location,
                 description |-> description, force |-> force]
        events == load_events(db)
        now == _to_iso(clock)
    IN  IF add_missing_required(title, date, time) \/ add_duration_invalid(duration)
        THEN /\ last' = Outcome("add", "validation", args, None, None)
             /\ UNCHANGED <<db, clock>>
        ELSE IF ~parse_dt_ok(date, time)
        THEN /\ last' = Outcome("add", "parse", args, None, None)
             /\ UNCHANGED <<db, clock>>
        ELSE \E proposed \in _generate_short_id :
             \E event_id \in _ensure_unique_id(events, proposed) :
             LET event == new_event(event_id, title, _parse_date_time(date, time),
                                    duration, location, description, now)
                 conflicts == IF add_skips_conflict_check(force) THEN <<>>
                              ELSE _check_conflicts(events, event, None)
             IN  IF conflicts # <<>>
                 THEN /\ last' = Outcome("add", "conflict", args, None,
                                         Detector(event, None, conflicts))
                      /\ UNCHANGED <<db, clock>>
                 ELSE /\ db' = save_events(sort_events(Append(events, event)))
                      /\ last' = Outcome("add", "ok", args, Some(event),
                                         IF add_skips_conflict_check(force) THEN None
                                         ELSE Detector(event, None, conflicts))
                      /\ UNCHANGED clock

(***************************************************************************)
(* show_event                                                              *)
(***************************************************************************)
first_index_with_id_OrFirst(events, event_id) ==
    LET hits == {i \in 1..Len(events) : events[i].id = event_id}
    IN  IF events = <<>> THEN 0
        ELSE IF hits = {} THEN 1 ELSE CHOOSE i \in hits : \A j \in hits : i <= j

first_index_with_id(events, event_id) ==
    LET hits == {i \in 1..Len(events) : events[i].id = event_id}
    IN  IF hits = {} THEN 0 ELSE CHOOSE i \in hits : \A j \in hits : i <= j

show_event(events, event_id) ==
    LET i == first_index_with_id(events, event_id)
    IN  IF i = 0 THEN None
        ELSE Some([event |-> events[i],
                   end_time |-> strftime_HM(get_end_datetime(events[i])),
                   conflicts |-> _check_conflicts(events, events[i], Some(event_id))])

ShowEvent(event_id) ==
    LET events == load_events(db)
        shown == show_event(events, event_id)
    IN  /\ last' = IF shown = None
                   THEN Outcome("show", "not_found", [event_id |-> event_id], None, None)
                   ELSE Outcome("show", "ok", [event_id |-> event_id], shown,
                                Detector(shown[1].event, Some(event_id),
                                         shown[1].conflicts))
        /\ UNCHANGED <<db, clock>>

(***************************************************************************)
(* delete_event, delete_events_by_date                                     *)
(***************************************************************************)
remove_at_Last(events, i) == SubSeq(events, 1, Len(events) - 1)

remove_at(events, i) == SubSeq(events, 1, i - 1) \o SubSeq(events, i + 1, Len(events))

DeleteEvent(event_id) ==
    LET events == load_events(db)
        i == first_index_with_id(events, event_id)
    IN  IF i = 0
        THEN /\ last' = Outcome("delete", "not_found", [event_id |-> event_id], None, None)
             /\ UNCHANGED <<db, clock>>
        ELSE /\ db' = save_events(remove_at(events, i))
             /\ last' = Outcome("delete", "ok", [event_id |-> event_id],
                                Some(events[i]), None)
             /\ UNCHANGED clock

(* parse_dt(text).strftime("%Y-%m-%d"): the date text may carry a time of *)
(* day, <<y, m, d, h, mi>>, which the format drops                       *)
date_text_parses(date) ==
    /\ Len(date) \in {3, 5}
    /\ date_parses(SubSeq(date, 1, 3))
    /\ (Len(date) = 5 => time_parses(SubSeq(date, 4, 5)))

strftime_Ymd(date) == SubSeq(date, 1, 3)

on_date_First(events, parsed_date) ==
    LET hits == SelectSeq(events, LAMBDA e : e.date = parsed_date)
    IN  IF hits = <<>> THEN <<>> ELSE <<hits[1]>>

on_date(events, parsed_date) == SelectSeq(events, LAMBDA e : e.date = parsed_date)

not_on_date(events, parsed_date) == SelectSeq(events, LAMBDA e : e.date # parsed_date)

DeleteEventsByDate(date) ==
    LET parsed_date == strftime_Ymd(date)
        events == load_events(db)
        deleted_events == on_date(events, parsed_date)
        remaining_events == not_on_date(events, parsed_date)
    IN  IF ~date_text_parses(date)
        THEN /\ last' = Outcome("delete_by_date", "parse", [date |-> date], None, None)
             /\ UNCHANGED <<db, clock>>
        ELSE /\ db' = IF deleted_events # <<>> THEN save_events(remaining_events) ELSE db
             /\ last' = Outcome("delete_by_date", "ok", [date |-> date],
                                Some(deleted_events), None)
             /\ UNCHANGED clock

(***************************************************************************)
(* edit_event                                                              *)
(***************************************************************************)
edit_duration_invalid_Negative(duration) == duration # None /\ duration[1] < 0

edit_duration_invalid(duration) == duration # None /\ duration[1] <= 0

edit_new_date(date, current_date) ==
    IF date # None /\ date[1] # <<>> THEN date[1] ELSE current_date

edit_new_time_Raw(time, current_time) == IF time # None THEN time[1] ELSE <<>>

edit_new_time(time, current_time) ==
    IF time # None /\ time[1] # <<>> THEN time[1] ELSE current_time

edit_updated_data(event, title, date, time, duration, location, description) ==
    LET parsed == _parse_date_time(edit_new_date(date, event.date),
                                   edit_new_time(time, event.start_time))
        reparse == date # None \/ time # None
    IN  [event EXCEPT
            !.title = IF title # None THEN strip(title[1]) ELSE @,
            !.date = IF reparse THEN parsed[1] ELSE @,
            !.start_time = IF reparse THEN parsed[2] ELSE @,
            !.duration = IF duration # None THEN duration[1] ELSE @,
            !.location = IF location # None THEN strip_opt(location) ELSE @,
            !.description = IF description # None THEN strip_opt(description) ELSE @]

index_of(events, event) ==
    CHOOSE i \in 1..Len(events) :
        events[i] = event /\ \A j \in 1..(i - 1) : events[j] # event

EditEvent(event_id, title, date, time, duration, location, description) ==
    LET args == [event_id |-> event_id, title |-> title, date |-> date,
                 time |-> time, duration |-> duration, location |-> location,
                 description |-> description]
        events == load_events(db)
        i == first_index_with_id(events, event_id)
        event == events[i]
        updated_data == edit_updated_data(event, title, date, time, duration,
                                          location, description)
        conflicts == _check_conflicts(events, updated_data, Some(event_id))
        stamped == [updated_data EXCEPT !.updated = _to_iso(clock + SleepTicks)]
    IN  IF i = 0
        THEN /\ last' = Outcome("edit", "not_found", args, None, None)
             /\ UNCHANGED <<db, clock>>
        ELSE IF (date # None \/ time # None)
                /\ ~parse_dt_ok(edit_new_date(date, event.date),
                                edit_new_time(time, event.start_time))
        THEN /\ last' = Outcome("edit", "parse", args, None, None)
             /\ UNCHANGED <<db, clock>>
        ELSE IF edit_duration_invalid(duration)
        THEN /\ last' = Outcome("edit", "validation", args, None, None)
             /\ UNCHANGED <<db, clock>>
        ELSE IF conflicts # <<>>
        THEN /\ last' = Outcome("edit", "conflict", args, None,
                                Detector(updated_data, Some(event_id), conflicts))
             /\ UNCHANGED <<db, clock>>
        ELSE /\ clock' = clock + SleepTicks
             /\ db' = save_events(sort_events(
                          [events EXCEPT ![index_of(events, event)] = stamped]))
             /\ last' = Outcome("edit", "ok", args, Some(stamped),
                                Detector(updated_data, Some(event_id), conflicts))

(***************************************************************************)
(* list_events.  datetime.now() is the clock read as a date: the clock     *)
(* counts from midnight of EpochDate.  timedelta(days=n) moves a date day  *)
(* by day; weekday() is Monday = 0 .. Sunday = 6 (ordinal 1 is a Monday);  *)
(* the "YYYY-MM-DD" texts are compared as strings.                         *)
(***************************************************************************)
TicksPerDay == MinutesPerDay * 60 * TicksPerSecond

EpochDate == <<2025, 2, 24>>

next_day(date) ==
    IF date[3] < days_in_month(date[1], date[2]) THEN <<date[1], date[2], date[3] + 1>>
    ELSE IF date[2] < 12 THEN <<date[1], date[2] + 1, 1>>
    ELSE <<date[1] + 1, 1, 1>>

prev_day(date) ==
    IF date[3] > 1 THEN <<date[1], date[2], date[3] - 1>>
    ELSE IF date[2] > 1 THEN <<date[1], date[2] - 1, days_in_month(date[1], date[2] - 1)>>
    ELSE <<date[1] - 1, 12, 31>>

RECURSIVE plus_days(_, _)
plus_days(date, n) ==
    IF n = 0 THEN date
    ELSE IF n > 0 THEN plus_days(next_day(date), n - 1)
    ELSE plus_days(prev_day(date), n + 1)

now_date(ticks) == plus_days(EpochDate, ticks \div TicksPerDay)

weekday_SundayFirst(date) == toordinal(date) % 7

weekday(date) == (toordinal(date) + 6) % 7

str_le(a, b) == ~lex_less(b, a)

truthy(o) == o # None /\ o[1] # <<>>

list_default_floor_IgnoresTo(from_date, to_date, today, week) ==
    ~truthy(from_date) /\ ~today /\ ~week

list_default_floor(from_date, to_date, today, week) ==
    ~truthy(from_date) /\ ~truthy(to_date) /\ ~today /\ ~week

list_events(events, from_date, to_date, today, week, now) ==
    LET today_str == now_date(now)
        days_until_sunday == 6 - weekday(today_str)
        week_end == plus_days(today_str, days_until_sunday)
        week_start == plus_days(week_end, -6)
        parsed_from == strftime_Ymd(from_date[1])
        parsed_to == strftime_Ymd(to_date[1])
        after_from == IF truthy(from_date)
                      THEN SelectSeq(events, LAMBDA e : str_le(parsed_from, e.date))
                      ELSE events
        after_to == IF truthy(to_date)
                    THEN SelectSeq(after_from, LAMBDA e : str_le(e.date, parsed_to))
                    ELSE after_from
    IN  IF today THEN SelectSeq(events, LAMBDA e : e.date = today_str)
        ELSE IF week
        THEN SelectSeq(events, LAMBDA e : str_le(week_start, e.date)
                                          /\ str_le(e.date, week_end))
        ELSE IF list_default_floor(from_date, to_date, today, week)
        THEN SelectSeq(after_to, LAMBDA e : str_le(today_str, e.date))
        ELSE after_to

ListEvents(from_date, to_date, today, week) ==
    LET args == [from_date |-> from_date, to_date |-> to_date, today |-> today,
                 week |-> week]
        events == load_events(db)
        raises == /\ ~today /\ ~week
                  /\ \/ truthy(from_date) /\ ~date_text_parses(from_date[1])
                     \/ truthy(to_date) /\ ~date_text_parses(to_date[1])
    IN  /\ last' = IF raises
                   THEN Outcome("list", "parse", args, None, None)
                   ELSE Outcome("list", "ok", args,
                                Some(list_events(events, from_date, to_date, today,
                                                 week, clock)), None)
        /\ UNCHANGED <<db, clock>>

(***************************************************************************)
(* get_agenda: the dict events_by_date is a function from the dates seen   *)
(* to the list of their events.                                            *)
(***************************************************************************)
agenda_put_Overwrite(agenda, event) ==
    IF event.date \notin DOMAIN agenda
    THEN agenda @@ (event.date :> <<event>>)
    ELSE [agenda EXCEPT ![event.date] = <<event>>]

agenda_put(agenda, event) ==
    IF event.date \notin DOMAIN agenda
    THEN agenda @@ (event.date :> <<event>>)
    ELSE [agenda EXCEPT ![event.date] = Append(@, event)]

RECURSIVE agenda_of(_)
agenda_of(events) ==
    IF events = <<>> THEN <<>>
    ELSE agenda_put(agenda_of(SubSeq(events, 1, Len(events) - 1)), events[Len(events)])

get_agenda(file, date, week, now) ==
    IF week
    THEN LET events == list_events(load_events(file), None, None, FALSE, TRUE, now)
         IN  [type |-> "week", events_by_date |-> agenda_of(events),
              total_events |-> Len(events)]
    ELSE LET target_date == IF truthy(date) THEN strftime_Ymd(date[1]) ELSE now_date(now)
             events == SelectSeq(load_events(file), LAMBDA e : e.date = target_date)
         IN  [type |-> "day", date |-> target_date, events |-> events,
              total_events |-> Len(events)]

GetAgenda(date, week) ==
    LET args == [date |-> date, week |-> week]
        raises == ~week /\ truthy(date) /\ ~date_text_parses(date[1])
    IN  /\ last' = IF raises
                   THEN Outcome("agenda", "parse", args, None, None)
                   ELSE Outcome("agenda", "ok", args,
                                Some(get_agenda(db, date, week, clock)), None)
        /\ UNCHANGED <<db, clock>>

(***************************************************************************)
(* search_events: str.lower, `x or ""`, " ".join and the substring test    *)
(* `q in searchable`.                                                      *)
(***************************************************************************)
lower_char(c) == IF c = "A" THEN "a" ELSE IF c = "B" THEN "b" ELSE c

lower_Identity(s) == s

lower(s) == [i \in 1..Len(s) |-> lower_char(s[i])]

or_empty(o) == IF o = None THEN <<>> ELSE o[1]

join_space_NoBlank(fields) ==
    IF fields = <<>> THEN <<>>
    ELSE LET rest[i \in 1..Len(fields)] ==
                 IF i = Len(fields) THEN fields[i]
                 ELSE fields[i] \o rest[i + 1]
         IN  rest[1]

join_space(fields) ==
    IF fields = <<>> THEN <<>>
    ELSE LET rest[i \in 1..Len(fields)] ==
                 IF i = Len(fields) THEN fields[i]
                 ELSE fields[i] \o <<" ">> \o rest[i + 1]
         IN  rest[1]

RECURSIVE str_in(_, _)
str_in(q, s) ==
    IF Len(q) > Len(s) THEN FALSE
    ELSE IF SubSeq(s, 1, Len(q)) = q THEN TRUE
    ELSE str_in(q, Tail(s))

searchable_OtherFields(event, title_only) ==
    IF title_only THEN lower(event.title)
    ELSE lower(join_space(<<or_empty(event.description), or_empty(event.location)>>))

searchable(event, title_only) ==
    IF title_only THEN lower(event.title)
    ELSE lower(join_space(<<event.title, or_empty(event.description),
                            or_empty(event.location)>>))

search_events(file, query, title_only) ==
    IF strip(query) = <<>> THEN <<>>
    ELSE LET q == lower(strip(query))
             events == load_events(file)
         IN  SelectSeq(events, LAMBDA event : str_in(q, searchable(event, title_only)))

SearchEvents(query, title_only) ==
    /\ last' = Outcome("search", "ok", [query |-> query, title_only |-> title_only],
                       Some(search_events(db, query, title_only)), None)
    /\ UNCHANGED <<db, clock>>

(***************************************************************************)
(* The specification: the operations run one after another on one store,   *)
(* starting from a store that does not exist yet.                          *)
(***************************************************************************)
D1 == <<2025, 2, 28>>
D2 == <<2025, 3, 1>>
BadDate == <<2025, 2, 30>>
T0000 == <<0, 0>>
T2330 == <<23, 30, 30>>
BadTime == <<24, 0>>
Title == <<"a">>

ValidAddArgs ==
    [title : {Title}, date : {D1, D2}, time : {T0000, T2330}, duration : {30, 60},
     force : BOOLEAN]

BaseAddArgs ==
    [title |-> Title, date |-> D1, time |-> T2330, duration |-> 60, force |-> FALSE]

InvalidAddArgs ==
    {[BaseAddArgs EXCEPT !.title = <<>>],
     [BaseAddArgs EXCEPT !.date = <<>>],
     [BaseAddArgs EXCEPT !.time = <<>>],
     [BaseAddArgs EXCEPT !.duration = 0],
     [BaseAddArgs EXCEPT !.duration = -30, !.force = TRUE],
     [BaseAddArgs EXCEPT !.date = BadDate],
     [BaseAddArgs EXCEPT !.time = BadTime, !.force = TRUE],
     [BaseAddArgs EXCEPT !.date = BadDate, !.duration = 0],
     [BaseAddArgs EXCEPT !.title = <<>>, !.time = BadTime]}

AddArgs == ValidAddArgs \cup InvalidAddArgs

EditArg(date, time, duration) == [date |-> date, time |-> time, duration |-> duration]

ValidEditArgs ==
    {EditArg(None, None, None),
     EditArg(Some(D1), None, None),
     EditArg(Some(D2), None, None),
     EditArg(None, Some(T0000), None),
     EditArg(None, Some(T2330), None),
     EditArg(None, None, Some(30)),
     EditArg(None, None, Some(60)),
     EditArg(Some(D2), Some(T0000), None),
     EditArg(Some(<<>>), Some(T2330), Some(60)),
     EditArg(Some(D1), Some(<<>>), None)}

InvalidEditArgs ==
    {EditArg(None, None, Some(0)),
     EditArg(None, None, Some(-30)),
     EditArg(Some(BadDate), None, None),
     EditArg(None, Some(BadTime), None),
     EditArg(Some(BadDate), None, Some(0)),
     EditArg(Some(D2), None, Some(0))}

EditArgs == ValidEditArgs \cup InvalidEditArgs

D2At2330 == <<2025, 3, 1, 23, 30>>

DeleteDates == {D1, D2, D2At2330, BadDate}

(* last holds the call that has just ended, with the store it found, until *)
(* its caller has taken the result (Return); then the next call can start. *)
Idle == [op |-> "idle"]

(* running holds the position of each invocation that runs step by step, *)
(* beside another one; the calls above run while none is under way.      *)
Procs == {1, 2}

Stopped == [pc |-> "stopped"]

Init ==
    /\ db = [state |-> "missing", events |-> <<>>]
    /\ clock = 0
    /\ last = Idle
    /\ running = [p \in Procs |-> Stopped]

Return ==
    /\ last # Idle
    /\ last' = Idle
    /\ UNCHANGED <<db, clock>>
    /\ UNCHANGED running

Add ==
    \E a \in AddArgs :
        /\ last = Idle
        /\ AddEvent(a.title, a.date, a.time, a.duration, None, None, a.force)
        /\ Len(load_events(db')) <= MaxEvents
        /\ UNCHANGED running

Show == \E event_id \in IdSpace : last = Idle /\ ShowEvent(event_id) /\ UNCHANGED running

Delete == \E event_id \in IdSpace : last = Idle /\ DeleteEvent(event_id) /\ UNCHANGED running

DeleteByDate == \E date \in DeleteDates : last = Idle /\ DeleteEventsByDate(date) /\ UNCHANGED running

Edit ==
    \E event_id \in IdSpace, a \in EditArgs :
        /\ last = Idle
        /\ EditEvent(event_id, None, a.date, a.time, a.duration, None, None)
        /\ clock' <= MaxClock
        /\ UNCHANGED running

Next == Add \/ Show \/ Delete \/ DeleteByDate \/ Edit \/ Return

Spec == Init /\ [][Next]_vars

(* The same operations when no caller ever passes force. *)
AddUnforced ==
    \E a \in {x \in AddArgs : ~x.force} :
        /\ last = Idle
        /\ AddEvent(a.title, a.date, a.time, a.duration, None, None, a.force)
        /\ Len(load_events(db')) <= MaxEvents
        /\ UNCHANGED running

NextUnforced == AddUnforced \/ Show \/ Delete \/ DeleteByDate \/ Edit \/ Return

SpecUnforced == Init /\ [][NextUnforced]_vars

(***************************************************************************)
(* Adds and edits whose texts carry blanks, and edits of every field: the  *)
(* callers that pass titles, locations and descriptions as typed.          *)
(***************************************************************************)
Blank == <<" ">>
Padded == <<" ", "b", " ">>

TextAddArg(title, date, time, location, description, force) ==
    [title |-> title, date |-> date, time |-> time, duration |-> 30,
     location |-> location, description |-> description, force |-> force]

TextAddArgs ==
    {TextAddArg(t, D1, T0000, None, None, f) :
        t \in {<<>>, Blank, Title, Padded}, f \in BOOLEAN}
    \cup {TextAddArg(Padded, D1, T2330, Some(Padded), Some(Padded), TRUE),
          TextAddArg(Title, D2, T0000, Some(Blank), Some(<<>>), TRUE)}

FieldEdit(title, date, time, duration, location, description) ==
    [title |-> title, date |-> date, time |-> time, duration |-> duration,
     location |-> location, description |-> description]

TextEditArgs ==
    {FieldEdit(None, None, None, None, None, None),
     FieldEdit(Some(<<>>), None, None, None, None, None),
     FieldEdit(Some(Blank), None, None, None, None, None),
     FieldEdit(Some(Padded), None, None, None, None, None),
     FieldEdit(Some(Title), None, None, None, None, None),
     FieldEdit(None, Some(D1), None, None, None, None),
     FieldEdit(None, Some(D2), None, None, None, None),
     FieldEdit(None, None, Some(T2330), None, None, None),
     FieldEdit(None, None, None, Some(60), None, None),
     FieldEdit(None, None, None, None, Some(<<>>), None),
     FieldEdit(None, None, None, None, Some(Blank), None),
     FieldEdit(None, None, None, None, Some(Padded), None),
     FieldEdit(None, None, None, None, None, Some(<<>>)),
     FieldEdit(None, None, None, None, None, Some(Padded)),
     FieldEdit(Some(Title), Some(D2), Some(T2330), Some(60), Some(Padded), Some(Padded)),
     FieldEdit(Some(Title), None, None, Some(0), None, None),
     FieldEdit(Some(Title), Some(BadDate), None, None, None, None)}

AddText ==
    \E a \in TextAddArgs :
        /\ last = Idle
        /\ AddEvent(a.title, a.date, a.time, a.duration, a.location, a.description,
                    a.force)
        /\ Len(load_events(db')) <= MaxEvents
        /\ UNCHANGED running

(* an edit call starts only while it can still end within the clock's horizon *)
EditText ==
    \E event_id \in IdSpace, a \in TextEditArgs :
        /\ last = Idle
        /\ clock + SleepTicks <= MaxClock
        /\ EditEvent(event_id, a.title, a.date, a.time, a.duration, a.location,
                     a.description)
        /\ UNCHANGED running

NextText == AddText \/ EditText \/ Return

SpecText == Init /\ [][NextText]_vars

(***************************************************************************)
(* The same calls with time passing between them: the clock moves by a     *)
(* tenth of a second at a time while no call runs, and by the delay of     *)
(* edit_event inside an edit.                                              *)
(***************************************************************************)
ClockHorizon == 12

Tick ==
    /\ last = Idle
    /\ clock < ClockHorizon
    /\ clock' = clock + 1
    /\ UNCHANGED <<db, last>>
    /\ UNCHANGED running

AddTimed ==
    /\ last = Idle
    /\ AddEvent(Title, D1, T0000, 30, None, None, TRUE)
    /\ Len(load_events(db')) <= MaxEvents
    /\ UNCHANGED running

EditTimed ==
    \E event_id \in IdSpace, duration \in {None, Some(60)} :
        /\ last = Idle
        /\ EditEvent(event_id, None, None, None, duration, None, None)
        /\ clock' <= ClockHorizon
        /\ UNCHANGED running

NextTimed == Tick \/ AddTimed \/ EditTimed \/ Return

SpecTimed == Init /\ [][NextTimed]_vars

(***************************************************************************)
(* Listing: the process starts on a Friday, on the Sunday that ends the    *)
(* same week or on the Monday after it, stores events dated from the       *)
(* Sunday before that week to the Monday after it, and lists them with     *)
(* every combination of filters.                                           *)
(***************************************************************************)
Sun23 == <<2025, 2, 23>>
Mon24 == <<2025, 2, 24>>
Sun02 == <<2025, 3, 2>>
Mon03 == <<2025, 3, 3>>
D1At2330 == <<2025, 2, 28, 23, 30>>

ListDates == {Sun23, Mon24, D1, Sun02, Mon03}

ListStartDays == {4, 6, 7}

ListArgs ==
    [from_date : {None, Some(<<>>), Some(D1), Some(BadDate)},
     to_date : {None, Some(D1At2330), Some(BadDate)},
     today : BOOLEAN,
     week : BOOLEAN]

InitList ==
    /\ db = [state |-> "missing", events |-> <<>>]
    /\ clock \in {day * TicksPerDay : day \in ListStartDays}
    /\ last = Idle
    /\ running = [p \in Procs |-> Stopped]

AddListed ==
    \E date \in ListDates :
        /\ last = Idle
        /\ AddEvent(Title, date, T0000, 30, None, None, TRUE)
        /\ Len(load_events(db')) <= MaxEvents
        /\ UNCHANGED running

List ==
    \E a \in ListArgs :
        last = Idle /\ ListEvents(a.from_date, a.to_date, a.today, a.week) /\ UNCHANGED running

AgendaArgs ==
    [date : {None, Some(<<>>), Some(D1), Some(D1At2330), Some(BadDate)}, week : BOOLEAN]

Agenda ==
    \E a \in AgendaArgs : last = Idle /\ GetAgenda(a.date, a.week) /\ UNCHANGED running

NextList == AddListed \/ List \/ Agenda \/ Return

SpecList == InitList /\ [][NextList]_vars

(***************************************************************************)
(* Searching: events whose title, description and location carry letters   *)
(* of both cases are stored and then searched with queries that are empty, *)
(* blank, padded, of either case, or contain a blank.                      *)
(***************************************************************************)
TitleAb == <<"A", "b">>

SearchAddArgs ==
    {TextAddArg(TitleAb, D1, T0000, None, None, TRUE),
     TextAddArg(Title, D1, T0000, None, Some(<<"B">>), TRUE),
     TextAddArg(<<"b">>, D1, T0000, Some(<<"A">>), None, TRUE),
     TextAddArg(<<"B">>, D2, T0000, Some(Title), Some(TitleAb), TRUE)}

SearchQueries ==
    {<<>>, Blank, <<"a">>, <<"A">>, Padded, <<" ", "B">>, <<"a", "b">>,
     <<"a", " ", "b">>, <<"b", " ", " ", "a">>}

AddSearched ==
    \E a \in SearchAddArgs :
        /\ last = Idle
        /\ AddEvent(a.title, a.date, a.time, a.duration, a.location, a.description,
                    a.force)
        /\ Len(load_events(db')) <= MaxEvents
        /\ UNCHANGED running

Search ==
    \E query \in SearchQueries, title_only \in BOOLEAN :
        last = Idle /\ SearchEvents(query, title_only) /\ UNCHANGED running

NextSearch == AddSearched \/ Search \/ Return

SpecSearch == Init /\ [][NextSearch]_vars

(***************************************************************************)
(* add_event step by step, for invocations that run beside one another:    *)
(* the start (validation, parsing, load, first draw of an id), each test   *)
(* of the while condition of _ensure_unique_id, and save_events in its     *)
(* steps: open("w") empties the file, the buffer may be flushed with a     *)
(* part of the text, closing the file completes it.                        *)
(***************************************************************************)
AddBegin(p, title, date, time, duration, location, description, force) ==
    LET args == [title |-> title, date |-> date, time |-> time,
                 duration |-> duration, location |-> location,
                 description |-> description, force |-> force]
    IN  /\ running[p] = Stopped
        /\ UNCHANGED <<db, clock>>
        /\ IF add_missing_required(title, date, time) \/ add_duration_invalid(duration)
           THEN /\ last' = Outcome("add", "validation", args, None, None)
                /\ UNCHANGED running
           ELSE IF ~parse_dt_ok(date, time)
           THEN /\ last' = Outcome("add", "parse", args, None, None)
                /\ UNCHANGED running
           ELSE \E proposed \in _generate_short_id :
                    /\ running' = [running EXCEPT ![p] =
                            [pc |-> "id_loop", args |-> args, prev |-> db,
                             events |-> load_events(db), now |-> _to_iso(clock),
                             new_id |-> proposed]]
                    /\ UNCHANGED last

(* while new_id in existing_ids: new_id = _generate_short_id() *)
IdRedraw(p) ==
    /\ running[p].pc = "id_loop"
    /\ running[p].new_id \in existing_ids(running[p].events)
    /\ \E drawn \in _generate_short_id :
            running' = [running EXCEPT ![p].new_id = drawn]
    /\ UNCHANGED <<db, clock, last>>

(* the same step when the draw gives an id that no loaded event has *)
IdRedrawFree(p) ==
    /\ IdRedraw(p)
    /\ running'[p].new_id \notin existing_ids(running[p].events)

(* the loop is left: the event is built and checked against the loaded *)
(* events; a conflict ends the call, else the sorted list is to be saved *)
IdAccepted(p) ==
    /\ running[p].pc = "id_loop"
    /\ running[p].new_id \notin existing_ids(running[p].events)
    /\ UNCHANGED <<db, clock>>
    /\ \E c \in {running[p]} :
       \E event \in {new_event(c.new_id, c.args.title,
                                _parse_date_time(c.args.date, c.args.time),
                                c.args.duration, c.args.location,
                                c.args.description, c.now)} :
       \E conflicts \in {IF add_skips_conflict_check(c.args.force) THEN <<>>
                          ELSE _check_conflicts(c.events, event, None)} :
           IF conflicts # <<>>
           THEN /\ last' = [op |-> "add", outcome |-> "conflict", args |-> c.args,
                            prev |-> c.prev, result |-> None,
                            detector |-> Detector(event, None, conflicts)]
                /\ running' = [running EXCEPT ![p] =
                        [pc |-> "done", outcome |-> "conflict", prev |-> c.prev]]
           ELSE /\ running' = [running EXCEPT ![p] =
                        [pc |-> "save", args |-> c.args, prev |-> c.prev,
                         event |-> event, mixed |-> FALSE,
                         pending |-> sort_events(Append(c.events, event))]]
                /\ UNCHANGED last

(* open("w"): the file is emptied.  Two invocations that have the file *)
(* open at once write into the same file: their texts may get mixed.   *)
SaveOpen(p) ==
    LET others == {q \in Procs : q # p /\ running[q].pc = "writing"}
    IN  /\ running[p].pc = "save"
        /\ db' = [state |-> "partial", events |-> <<>>]
        /\ running' = [q \in Procs |->
                IF q = p THEN [running[p] EXCEPT !.pc = "writing", !.mixed = others # {}]
                ELSE IF q \in others THEN [running[q] EXCEPT !.mixed = TRUE]
                ELSE running[q]]
        /\ UNCHANGED <<clock, last>>

SaveFlush(p) ==
    /\ running[p].pc = "writing"
    /\ db.state = "partial"
    /\ \E n \in 1..(Len(running[p].pending) - 1) :
            /\ n > Len(db.events)
            /\ db' = [state |-> "partial", events |-> SubSeq(running[p].pending, 1, n)]
    /\ UNCHANGED <<clock, last, running>>

save_outcomes_AnyText(pending, mixed) ==
    {save_events(pending), [state |-> "unparseable", events |-> pending]}

save_outcomes(pending, mixed) ==
    IF mixed
    THEN {save_events(pending), [state |-> "unparseable", events |-> pending]}
    ELSE {save_events(pending)}

SaveClose(p) ==
    LET c == running[p]
    IN  /\ c.pc = "writing"
        /\ db' \in save_outcomes(c.pending, c.mixed)
        /\ last' = [op |-> "add", outcome |-> "ok", args |-> c.args, prev |-> c.prev,
                    result |-> Some(c.event), detector |-> None]
        /\ running' = [running EXCEPT ![p] =
                [pc |-> "done", outcome |-> "ok", prev |-> c.prev, event |-> c.event,
                 mixed |-> c.mixed]]
        /\ UNCHANGED clock

(* the caller has taken the result *)
Collect(p) ==
    /\ running[p].pc = "done"
    /\ running' = [running EXCEPT ![p] = Stopped]
    /\ last' = Idle
    /\ UNCHANGED <<db, clock>>

(***************************************************************************)
(* Two invocations of add beside one another, each run once, on a store    *)
(* that does not exist yet or holds one event.                             *)
(***************************************************************************)
StoredOne == new_event(1, Title, <<D1, <<0, 0>>>>, 30, None, None, 0)

InitBeside ==
    /\ db \in {[state |-> "missing", events |-> <<>>], save_events(<<StoredOne>>)}
    /\ clock = 0
    /\ last = Idle
    /\ running = [p \in Procs |-> Stopped]

AddBeside(p) ==
    \E a \in {x \in ValidAddArgs : x.duration = 30 /\ x.time = T0000} :
        AddBegin(p, a.title, a.date, a.time, a.duration, None, None, a.force)

NextBeside ==
    \E p \in Procs :
        \/ AddBeside(p)
        \/ IdRedraw(p)
        \/ IdAccepted(p)
        \/ SaveOpen(p)
        \/ SaveFlush(p)
        \/ SaveClose(p)

SpecBeside == InitBeside /\ [][NextBeside]_vars

(***************************************************************************)
(* The operations on a store file that does not hold a list of events: it  *)
(* is missing, holds text that is not JSON, holds bytes that are not       *)
(* UTF-8 text, or holds a JSON value that is not a list.                   *)
(***************************************************************************)
DamagedStates == {"unparseable", "undecodable", "not_list"}

InitDamaged ==
    /\ db \in {[state |-> "missing", events |-> <<>>]}
              \cup [state : DamagedStates, events : {<<StoredOne>>}]
    /\ clock = 0
    /\ last = Idle
    /\ running = [p \in Procs |-> Stopped]

LoadEvents ==
    /\ last = Idle
    /\ last' = IF load_raises(db)
               THEN Outcome("load", "error", None, None, None)
               ELSE Outcome("load", "ok", None, Some(load_events(db)), None)
    /\ UNCHANGED <<db, clock, running>>

AddDamaged ==
    \E a \in AddArgs :
        /\ last = Idle
        /\ IF load_raises(db) /\ ~add_missing_required(a.title, a.date, a.time)
              /\ ~add_duration_invalid(a.duration) /\ parse_dt_ok(a.date, a.time)
           THEN /\ last' = Outcome("add", "error", a, None, None)
                /\ UNCHANGED <<db, clock>>
           ELSE AddEvent(a.title, a.date, a.time, a.duration, None, None, a.force)
        /\ Len(load_events(db')) <= MaxEvents
        /\ UNCHANGED running

NextDamaged == LoadEvents \/ AddDamaged \/ Return

SpecDamaged == InitDamaged /\ [][NextDamaged]_vars

(***************************************************************************)
(* One add after another, each followed step by step, on a store that      *)
(* fills up: the identifier loop of an add that has started keeps running, *)
(* the random choice is fair (a free identifier is drawn sooner or later   *)
(* when there is one), and the steps after the loop are taken.             *)
(***************************************************************************)
AddAlone ==
    \E a \in {x \in ValidAddArgs : x.duration = 30 /\ x.time = T0000} :
        AddBegin(1, a.title, a.date, a.time, a.duration, None, None, a.force)

NextIds ==
    \/ AddAlone
    \/ IdRedraw(1)
    \/ IdAccepted(1)
    \/ SaveOpen(1)
    \/ SaveFlush(1)
    \/ SaveClose(1)
    \/ Collect(1)

FairIds ==
    /\ WF_vars(IdRedraw(1))
    /\ WF_vars(IdRedrawFree(1))
    /\ WF_vars(IdAccepted(1))
    /\ WF_vars(SaveOpen(1))
    /\ WF_vars(SaveClose(1))

SpecIds == Init /\ [][NextIds]_vars /\ FairIds

(***************************************************************************)
(* All the operations, one after another on one store: the ones that       *)
(* change the store, with inputs that pass and inputs that fail, and the    *)
(* ones that only read it.                                                 *)
(***************************************************************************)
AddFramed ==
    \E a \in {x \in AddArgs : x.date # D2 /\ x.duration # 30} :
        /\ last = Idle
        /\ AddEvent(a.title, a.date, a.time, a.duration, None, None, a.force)
        /\ Len(load_events(db')) <= MaxEvents
        /\ UNCHANGED running

ListFramed ==
    \E a \in {x \in ListArgs : x.to_date = None /\ ~x.today} :
        last = Idle /\ ListEvents(a.from_date, a.to_date, a.today, a.week) /\ UNCHANGED running

SearchFramed ==
    \E query \in {<<>>, <<"A">>}, title_only \in BOOLEAN :
        last = Idle /\ SearchEvents(query, title_only) /\ UNCHANGED running

AgendaFramed ==
    \E a \in {x \in AgendaArgs : x.date \in {None, Some(D1), Some(BadDate)}} :
        last = Idle /\ GetAgenda(a.date, a.week) /\ UNCHANGED running

NextFramed ==
    \/ AddFramed
    \/ Edit
    \/ Delete
    \/ DeleteByDate
    \/ Show
    \/ ListFramed
    \/ SearchFramed
    \/ AgendaFramed
    \/ Return

SpecFramed == Init /\ [][NextFramed]_vars

(***************************************************************************)
(* Vocabulary of the properties.  The date-and-time line is computed here  *)
(* with the days-from-civil formula, independently of the datetime         *)
(* arithmetic above; only differences of its values are used.              *)
(***************************************************************************)
Persisted == IF db.state = "list" THEN db.events ELSE <<>>

Before == IF last.prev.state = "list" THEN last.prev.events ELSE <<>>

Called(op) == last # Idle /\ last.op = op

DayNumber(date) ==
    LET y == IF date[2] <= 2 THEN date[1] - 1 ELSE date[1]
        mp == IF date[2] > 2 THEN date[2] - 3 ELSE date[2] + 9
    IN  365 * y + (y \div 4) - (y \div 100) + (y \div 400)
            + ((153 * mp + 2) \div 5) + date[3] - 1

StartMinute(date, time) == DayNumber(date) * 1440 + time[1] * 60 + time[2]

StartOf(e) == StartMinute(e.date, e.start_time)

EndOf(e) == StartOf(e) + e.duration

(* [s1, e1) and [s2, e2) have a minute in common *)
Meet(s1, e1, s2, e2) == (s1..(e1 - 1)) \cap (s2..(e2 - 1)) # {}

Overlapping(a, b) == Meet(StartOf(a), EndOf(a), StartOf(b), EndOf(b))

DateBefore(a, b) ==
    \/ a[1] < b[1]
    \/ a[1] = b[1] /\ a[2] < b[2]
    \/ a[1] = b[1] /\ a[2] = b[2] /\ a[3] < b[3]

TimeBefore(a, b) == a[1] < b[1] \/ (a[1] = b[1] /\ a[2] < b[2])

PairAtMost(a, b) ==
    \/ DateBefore(a.date, b.date)
    \/ a.date = b.date /\ ~TimeBefore(b.start_time, a.start_time)

IdsOf(events) == {events[i].id : i \in 1..Len(events)}

(* the arguments of an add are well formed: they pass validation and parsing *)
AddWellFormed(a) ==
    /\ a.title # <<>>
    /\ a.duration > 0
    /\ date_parses(a.date)
    /\ time_parses(a.time)

AddStart(a) == StartMinute(a.date, <<a.time[1], a.time[2]>>)

AddEnd(a) == AddStart(a) + a.duration

(***************************************************************************)
(* C1: after any successful add (forced or not), edit, delete or           *)
(* delete_by_date, in any sequence from the empty store, the persisted     *)
(* collection is sorted ascending by the pair (date, start_time).          *)
(***************************************************************************)
C1_PersistedSorted ==
    \A i, j \in 1..Len(Persisted) : i < j => PairAtMost(Persisted[i], Persisted[j])

(* an add, or an edit, whose event had to move in front of an older one *)
C1_Witness_AddMovedToFront ==
    /\ Called("add") /\ last.outcome = "ok"
    /\ Len(Persisted) = 2
    /\ Persisted[1] = last.result[1]
    /\ Persisted[1].date = Persisted[2].date

(***************************************************************************)
(* C2: when every add uses force=false, whatever edits and deletes are     *)
(* mixed in, no two persisted events have intersecting half-open intervals *)
(* [start, start + duration).                                              *)
(***************************************************************************)
C2_NoOverlapUnforced ==
    \A i, j \in 1..Len(Persisted) : i # j => ~Overlapping(Persisted[i], Persisted[j])

(* an edit went through next to an event that the edited one now touches *)
(* across midnight                                                       *)
C2_Witness_EditedToTouch ==
    /\ Called("edit") /\ last.outcome = "ok"
    /\ Len(Persisted) = 2
    /\ Persisted[1].date # Persisted[2].date
    /\ EndOf(Persisted[1]) = StartOf(Persisted[2])
    /\ Before # Persisted

(***************************************************************************)
(* C3: no two stored events have the same id; add assigns an id that no    *)
(* event of the collection it loaded has; edit, delete, delete_by_date and *)
(* show add no id, and edit keeps every id.                                *)
(***************************************************************************)
C3_UniqueIds ==
    /\ \A i, j \in 1..Len(Persisted) : i # j => Persisted[i].id # Persisted[j].id
    /\ (Called("add") /\ last.outcome = "ok") =>
            /\ last.result[1].id \notin IdsOf(Before)
            /\ IdsOf(Persisted) = IdsOf(Before) \cup {last.result[1].id}
    /\ (last # Idle /\ last.op # "add") => IdsOf(Persisted) \subseteq IdsOf(Before)
    /\ (Called("edit") /\ last.outcome = "ok") =>
            /\ Len(Persisted) = Len(Before)
            /\ IdsOf(Persisted) = IdsOf(Before)
            /\ last.result[1].id = last.args.event_id

(* an add into a store that already holds an event *)
C3_Witness_SecondAdd ==
    /\ Called("add") /\ last.outcome = "ok"
    /\ Len(Before) = MaxEvents - 1
    /\ Len(Persisted) = MaxEvents

(***************************************************************************)
(* C4: an add with force=false (and otherwise well-formed arguments) whose *)
(* interval overlaps a stored event fails with the conflict error, and the *)
(* persisted store is the store before the call.                           *)
(***************************************************************************)
C4_AddConflictNoEffect ==
    (/\ Called("add") /\ ~last.args.force
     /\ AddWellFormed(last.args)
     /\ \E i \in 1..Len(Before) :
            Meet(AddStart(last.args), AddEnd(last.args), StartOf(Before[i]), EndOf(Before[i])))
    => (last.outcome = "conflict" /\ db = last.prev)

(* refused for an overlap that only exists across midnight, with the last *)
(* of two stored events                                                   *)
C4_Witness_ConflictAcrossMidnight ==
    /\ Called("add") /\ last.outcome = "conflict"
    /\ Len(Before) = 2
    /\ Len(last.detector[1].conflicts) = 1
    /\ last.detector[1].conflicts[1] = Before[2]
    /\ last.detector[1].conflicts[1].date # last.detector[1].candidate.date

(* the event an edit addresses, the fields its arguments ask for, and *)
(* whether those arguments pass parsing and validation                *)
EditTargets == {k \in 1..Len(Before) : Before[k].id = last.args.event_id}

EditTarget == Before[CHOOSE k \in EditTargets : TRUE]

Given(o) == o # None /\ o[1] # <<>>

EditDate == IF Given(last.args.date) THEN last.args.date[1] ELSE EditTarget.date

EditTime ==
    IF Given(last.args.time)
    THEN <<last.args.time[1][1], last.args.time[1][2]>>
    ELSE EditTarget.start_time

EditDuration ==
    IF last.args.duration # None THEN last.args.duration[1] ELSE EditTarget.duration

EditDateTimeWellFormed ==
    /\ Given(last.args.date) => date_parses(last.args.date[1])
    /\ Given(last.args.time) => time_parses(last.args.time[1])

EditStart == StartMinute(EditDate, EditTime)

EditEnd == EditStart + EditDuration

(***************************************************************************)
(* C5: an edit (of a stored event, with well-formed arguments) whose       *)
(* resulting interval overlaps a stored event other than the edited one    *)
(* fails with the conflict error, and the persisted store, the edited      *)
(* event's fields and updated timestamp included, is the store before the  *)
(* call.                                                                   *)
(***************************************************************************)
C5_EditConflictNoEffect ==
    (/\ Called("edit") /\ EditTargets # {}
     /\ EditDateTimeWellFormed
     /\ \E i \in 1..Len(Before) :
            /\ Before[i].id # last.args.event_id
            /\ Meet(EditStart, EditEnd, StartOf(Before[i]), EndOf(Before[i])))
    => (last.outcome = "conflict" /\ db = last.prev)

(* the first of two events is asked to last into the second one, which *)
(* starts at midnight                                                  *)
C5_Witness_GrowIntoNext ==
    /\ Called("edit") /\ last.outcome = "conflict"
    /\ Len(Before) = 2
    /\ Before[1].id = last.args.event_id
    /\ last.args.duration = Some(60) /\ last.args.date = None /\ last.args.time = None
    /\ Before[1].date # Before[2].date
    /\ db = last.prev

(***************************************************************************)
(* C6: add with force=true and otherwise valid inputs never fails with the *)
(* conflict error, whatever the store holds: it persists the store with    *)
(* exactly one more event than before.                                     *)
(***************************************************************************)
C6_ForcedAddAlwaysStores ==
    (Called("add") /\ last.args.force /\ AddWellFormed(last.args))
    => (/\ last.outcome = "ok"
        /\ Len(Persisted) = Len(Before) + 1
        /\ \E i \in 1..Len(Persisted) : Persisted[i] = last.result[1])

(* a forced add on top of an event it overlaps *)
C6_Witness_ForcedOverOverlap ==
    /\ Called("add") /\ last.args.force /\ last.outcome = "ok"
    /\ \E i \in 1..Len(Before) : Overlapping(Before[i], last.result[1])

(***************************************************************************)
(* C7: the conflict detector returns exactly the events of the collection, *)
(* other than the one with the excluded id, for which                      *)
(* candidate.start < other.end and candidate.end > other.start, with       *)
(* end = start + duration minutes on the full date-and-time line; the      *)
(* events come in the collection's order.                                  *)
(***************************************************************************)
C7_DetectorExact ==
    (last # Idle /\ last.detector # None) =>
        LET d == last.detector[1]
            hit(o) == /\ ~(d.exclude_id # None /\ o.id = d.exclude_id[1])
                      /\ StartOf(d.candidate) < EndOf(o)
                      /\ EndOf(d.candidate) > StartOf(o)
        IN  d.conflicts = SelectSeq(Before, hit)

(* show of an event that runs past midnight into an event of the next day *)
C7_Witness_ShowAcrossMidnight ==
    /\ Called("show") /\ last.outcome = "ok"
    /\ Len(Before) = 2
    /\ Len(last.detector[1].conflicts) = 1
    /\ last.detector[1].conflicts[1].date # last.detector[1].candidate.date

(***************************************************************************)
(* C8: events that only touch are not in conflict: an add with force=false *)
(* of an event that starts exactly when a stored event ends, or ends       *)
(* exactly when a stored event starts, and overlaps no stored event,       *)
(* succeeds.                                                               *)
(***************************************************************************)
C8_TouchingAddSucceeds ==
    (/\ Called("add") /\ ~last.args.force
     /\ AddWellFormed(last.args)
     /\ \E i \in 1..Len(Before) :
            \/ AddStart(last.args) = EndOf(Before[i])
            \/ AddEnd(last.args) = StartOf(Before[i])
     /\ \A i \in 1..Len(Before) :
            ~Meet(AddStart(last.args), AddEnd(last.args),
                  StartOf(Before[i]), EndOf(Before[i])))
    => (last.outcome = "ok" /\ Len(Persisted) = Len(Before) + 1)

(* an unforced add that ends at midnight, exactly when the next day's *)
(* stored event starts                                                *)
C8_Witness_TouchAtMidnight ==
    /\ Called("add") /\ ~last.args.force /\ last.outcome = "ok"
    /\ \E i \in 1..Len(Before) :
            /\ EndOf(last.result[1]) = StartOf(Before[i])
            /\ Before[i].date # last.result[1].date

(***************************************************************************)
(* C9: conflict is symmetric: for any two stored events A and B, B is in   *)
(* the conflicts list of show(A) if and only if A is in the conflicts list *)
(* of show(B).  Stated of the store between two calls: every store the     *)
(* program reaches is the store of such a state (Return keeps the store).  *)
(***************************************************************************)
Listed(e, events) == \E k \in 1..Len(events) : events[k] = e

ShownConflicts(i) == show_event(load_events(db), Persisted[i].id)[1].conflicts

C9_ShowConflictSymmetric ==
    last = Idle =>
        \A i, j \in 1..Len(Persisted) :
            i # j => (Listed(Persisted[j], ShownConflicts(i))
                        <=> Listed(Persisted[i], ShownConflicts(j)))

(* two forced events of different lengths that overlap across midnight, *)
(* each listed by the other                                             *)
C9_Witness_MutualConflict ==
    /\ last = Idle
    /\ Len(Persisted) = 2
    /\ Persisted[1].date # Persisted[2].date
    /\ Persisted[1].duration # Persisted[2].duration
    /\ Listed(Persisted[2], ShownConflicts(1))
    /\ Listed(Persisted[1], ShownConflicts(2))

(***************************************************************************)
(* C10, as stated: add with an empty title, an empty date, an empty time   *)
(* or duration <= 0 fails with the validation error, and edit of a stored  *)
(* event with duration <= 0 fails with the validation error; in each case  *)
(* the persisted store is the store before the call.                       *)
(***************************************************************************)
AddInvalidRejected ==
    (/\ Called("add")
     /\ \/ last.args.title = <<>>
        \/ last.args.date = <<>>
        \/ last.args.time = <<>>
        \/ last.args.duration <= 0)
    => (last.outcome = "validation" /\ db = last.prev)

EditNonPositiveDuration ==
    /\ Called("edit") /\ EditTargets # {}
    /\ last.args.duration # None /\ last.args.duration[1] <= 0

C10_Original_AlwaysValidationError ==
    /\ AddInvalidRejected
    /\ EditNonPositiveDuration => (last.outcome = "validation" /\ db = last.prev)

(***************************************************************************)
(* C10, amended: add with an empty title, an empty date, an empty time or  *)
(* duration <= 0 fails with the validation error; edit of a stored event   *)
(* with duration <= 0 fails with the validation error, unless it also      *)
(* passes a date or time that cannot be parsed, in which case it fails     *)
(* with the parse error (edit parses before it validates the duration);    *)
(* in each case the persisted store is the store before the call.          *)
(***************************************************************************)
C10_ValidationNoEffect ==
    /\ AddInvalidRejected
    /\ EditNonPositiveDuration =>
           /\ db = last.prev
           /\ last.outcome = IF EditDateTimeWellFormed THEN "validation" ELSE "parse"

(* an edit that passes a good date and a zero duration, on a store of two *)
C10_Witness_EditZeroDuration ==
    /\ Called("edit") /\ last.outcome = "validation"
    /\ Len(Before) = 2
    /\ last.args.date = Some(D2) /\ last.args.duration = Some(0)
    /\ EditTarget.date # D2
    /\ db = last.prev

(***************************************************************************)
(* C11: in every state reachable from an empty store by add and edit calls *)
(* with any arguments (titles made only of whitespace and an edit that     *)
(* passes an empty title included), every stored event has a title that is *)
(* non-empty and has no leading or trailing whitespace.                    *)
(***************************************************************************)
C11_TitlesNonEmptyTrimmed ==
    \A i \in 1..Len(Persisted) :
        LET title == Persisted[i].title
        IN  /\ title # <<>>
            /\ title[1] # " "
            /\ title[Len(title)] # " "

(***************************************************************************)
(* C12: in every state reachable from an empty store by add, edit, delete  *)
(* and delete_by_date, every stored event has duration > 0.                *)
(***************************************************************************)
C12_DurationsPositive ==
    \A i \in 1..Len(Persisted) : Persisted[i].duration > 0

(* an edit has just rewritten the duration of one of two stored events *)
C12_Witness_EditedDuration ==
    /\ Called("edit") /\ last.outcome = "ok"
    /\ Len(Persisted) = 2
    /\ last.args.duration # None
    /\ EditTarget.duration # last.args.duration[1]
    /\ \E i \in 1..Len(Persisted) :
            /\ Persisted[i].id = last.args.event_id
            /\ Persisted[i].duration = last.args.duration[1]

(***************************************************************************)
(* C13: a successful edit changes only what it was asked to change: the    *)
(* edited event keeps its id and created timestamp, every field whose      *)
(* argument was omitted keeps its stored value (an edit giving only a date *)
(* keeps start_time, an edit giving only a time keeps date), only updated  *)
(* is otherwise refreshed, the number of events is unchanged, and every    *)
(* other event in the store is unchanged.                                  *)
(***************************************************************************)
EventsOf(events) == {events[i] : i \in 1..Len(events)}

C13_EditChangesOnlyAsked ==
    (Called("edit") /\ last.outcome = "ok") =>
        LET old == EditTarget
            new == last.result[1]
        IN  /\ DOMAIN new = DOMAIN old
            /\ new.id = old.id
            /\ new.created = old.created
            /\ last.args.title = None => new.title = old.title
            /\ last.args.date = None => new.date = old.date
            /\ last.args.time = None => new.start_time = old.start_time
            /\ last.args.duration = None => new.duration = old.duration
            /\ last.args.location = None => new.location = old.location
            /\ last.args.description = None => new.description = old.description
            /\ Len(Persisted) = Len(Before)
            /\ new \in EventsOf(Persisted)
            /\ EventsOf(Persisted) \ {new} = EventsOf(Before) \ {old}

(* an edit that gave only a date, of an event stored at 23:30 with a *)
(* location and a description, next to another event                 *)
C13_Witness_DateOnlyKeepsTime ==
    /\ Called("edit") /\ last.outcome = "ok"
    /\ Len(Before) = 2
    /\ last.args.date = Some(D2)
    /\ \A f \in {"title", "time", "duration", "location", "description"} :
            last.args[f] = None
    /\ EditTarget.date = D1
    /\ EditTarget.start_time = <<23, 30>>
    /\ EditTarget.location # None
    /\ last.result[1].date = D2
    /\ last.result[1].start_time = <<23, 30>>
    /\ Persisted[2] = last.result[1]

(* an edit of a stored event that specifies no field, and what its result *)
(* has to be when it succeeds                                             *)
EditNoFields ==
    /\ Called("edit") /\ EditTargets # {}
    /\ \A f \in {"title", "date", "time", "duration", "location", "description"} :
            last.args[f] = None

ReturnsStoredButUpdated ==
    /\ last.outcome = "ok"
    /\ last.result[1] = [EditTarget EXCEPT !.updated = last.result[1].updated]

TargetOverlapsAnother ==
    \E i \in 1..Len(Before) :
        Before[i].id # last.args.event_id /\ Overlapping(EditTarget, Before[i])

(***************************************************************************)
(* C14, as stated: for every event id present in any reachable store       *)
(* (stores built with forced, overlapping adds included), edit(id) with    *)
(* zero fields specified succeeds without a conflict error and returns the *)
(* record with every field other than updated equal to its stored value.   *)
(***************************************************************************)
C14_Original_NoOpEditAlwaysSucceeds == EditNoFields => ReturnsStoredButUpdated

(***************************************************************************)
(* What edit_event does with zero fields: it runs the conflict detector on *)
(* the unchanged event against the other stored events, so the edit of an  *)
(* event that overlaps another one (both were forced) ends in the conflict *)
(* error with the store unchanged, and every other one succeeds.           *)
(***************************************************************************)
NoOpEditObserved ==
    EditNoFields =>
        IF TargetOverlapsAnother
        THEN last.outcome = "conflict" /\ db = last.prev
        ELSE ReturnsStoredButUpdated

(***************************************************************************)
(* C15: every successful edit sets the event's updated timestamp to a      *)
(* value strictly greater than the event's previous updated value and than *)
(* its created value, the timestamps being recorded at whole-second        *)
(* precision and the clock advancing by the 0.2 second delay inside edit   *)
(* (and by any amount between calls).                                      *)
(***************************************************************************)
C15_UpdatedStrictlyGreater ==
    (Called("edit") /\ last.outcome = "ok") =>
        /\ last.result[1].updated > EditTarget.updated
        /\ last.result[1].updated > EditTarget.created

(***************************************************************************)
(* C16: delete(id) with an id present in the store returns that event's    *)
(* record and persists a store equal to the previous store with exactly    *)
(* that one event removed and all other events unchanged and in the same   *)
(* relative order.                                                         *)
(***************************************************************************)
C16_DeleteRemovesExactlyOne ==
    (Called("delete") /\ last.args.event_id \in IdsOf(Before)) =>
        /\ last.outcome = "ok"
        /\ \E k \in 1..Len(Before) :
            /\ Before[k].id = last.args.event_id
            /\ last.result = Some(Before[k])
            /\ Len(Persisted) = Len(Before) - 1
            /\ \A i \in 1..Len(Persisted) :
                    Persisted[i] = IF i < k THEN Before[i] ELSE Before[i + 1]

(* the first of two stored events was deleted: the second one moved up *)
C16_Witness_DeleteFirstOfTwo ==
    /\ Called("delete") /\ last.outcome = "ok"
    /\ Len(Before) = 2
    /\ Before[1].id = last.args.event_id
    /\ Persisted = <<Before[2]>>
    /\ last.result = Some(Before[1])

(***************************************************************************)
(* C17: delete_by_date(d) partitions the store: it returns exactly the     *)
(* stored events whose date equals the normalized d, the persisted store   *)
(* afterwards holds exactly the remaining events in their previous         *)
(* relative order, and no event on another date is removed or changed.     *)
(***************************************************************************)
NormalizedDate(d) == <<d[1], d[2], d[3]>>

C17_DeleteByDatePartitions ==
    (Called("delete_by_date") /\ date_text_parses(last.args.date)) =>
        LET d == NormalizedDate(last.args.date)
            on(e) == e.date = d
            off(e) == e.date # d
        IN  /\ last.outcome = "ok"
            /\ last.result = Some(SelectSeq(Before, on))
            /\ Persisted = SelectSeq(Before, off)

(* the date was given with a time of day; of two stored events the one on *)
(* that date was returned and the one of the day before was kept          *)
C17_Witness_LaterDateDeleted ==
    /\ Called("delete_by_date") /\ last.outcome = "ok"
    /\ last.args.date = D2At2330
    /\ Len(Before) = 2
    /\ last.result = Some(<<Before[2]>>)
    /\ Persisted = <<Before[1]>>
    /\ Before[1].date = D1

(***************************************************************************)
(* C18: show, edit and delete called with an id that no stored event has   *)
(* return the not-found result without raising any error, whatever the     *)
(* other arguments are (an edit with duration <= 0 or with a date that     *)
(* cannot be parsed included), and leave the persisted store unchanged.    *)
(***************************************************************************)
C18_UnknownIdNotFound ==
    (/\ last # Idle
     /\ last.op \in {"show", "edit", "delete"}
     /\ last.args.event_id \notin IdsOf(Before))
    => (last.outcome = "not_found" /\ last.result = None /\ db = last.prev)

(* an edit with an unparseable date and a zero duration, addressed to an *)
(* id that neither of the two stored events has                          *)
C18_Witness_BadEditOfUnknownId ==
    /\ Called("edit") /\ last.outcome = "not_found"
    /\ Len(Before) = 2
    /\ last.args.date = Some(BadDate)
    /\ last.args.duration = Some(0)
    /\ db = last.prev

(* today as a day number, counted on the days-from-civil line; the Monday *)
(* of the week containing today, found from a date known to be a Monday   *)
TodayNumber == DayNumber(EpochDate) + (clock \div TicksPerDay)

KnownMonday == <<2024, 1, 1>>

MondayNumber == TodayNumber - ((TodayNumber - DayNumber(KnownMonday)) % 7)

ListBound(o) == DayNumber(NormalizedDate(o[1]))

(***************************************************************************)
(* C19: list with none of today, week, from, to returns exactly the stored *)
(* events whose date is today or later (so a store of only past-dated      *)
(* events yields an empty list); list with only from returns exactly the   *)
(* events with date >= from, and list with only to returns exactly the     *)
(* events with date <= to, both bounds inclusive and with no today-onward  *)
(* floor applied even when the bound lies in the past.  The results keep   *)
(* the store's order; a bound is a date text that parses.                  *)
(***************************************************************************)
C19_ListDefaultAndOneSided ==
    (Called("list") /\ ~last.args.today /\ ~last.args.week) =>
        LET from_date == last.args.from_date
            to_date == last.args.to_date
            from_today(e) == DayNumber(e.date) >= TodayNumber
            from_bound(e) == DayNumber(e.date) >= ListBound(from_date)
            to_bound(e) == DayNumber(e.date) <= ListBound(to_date)
        IN  /\ (~Given(from_date) /\ ~Given(to_date)) =>
                    last.result = Some(SelectSeq(Before, from_today))
            /\ (Given(from_date) /\ date_text_parses(from_date[1]) /\ ~Given(to_date)) =>
                    last.result = Some(SelectSeq(Before, from_bound))
            /\ (Given(to_date) /\ date_text_parses(to_date[1]) /\ ~Given(from_date)) =>
                    last.result = Some(SelectSeq(Before, to_bound))

(* on the Monday, a list with only a to bound of the Friday before: the *)
(* event of that Friday is returned, the one of the Sunday is not       *)
C19_Witness_PastToBound ==
    /\ Called("list") /\ last.outcome = "ok"
    /\ ~last.args.today /\ ~last.args.week
    /\ last.args.from_date = None /\ last.args.to_date = Some(D1At2330)
    /\ now_date(clock) = Mon03
    /\ Len(Before) = 2
    /\ Before[1].date = D1 /\ Before[2].date = Sun02
    /\ last.result = Some(<<Before[1]>>)

(***************************************************************************)
(* C20: the list filters are ranked: when today is set the result is       *)
(* exactly the events dated today, whatever week, from and to are; when    *)
(* week is set and today is not, the result is exactly the events whose    *)
(* date lies between the Monday and the Sunday (both inclusive) of the     *)
(* week containing today, whatever from and to are.                        *)
(***************************************************************************)
C20_ListFiltersRanked ==
    Called("list") =>
        LET dated_today(e) == DayNumber(e.date) = TodayNumber
            this_week(e) == /\ DayNumber(e.date) >= MondayNumber
                            /\ DayNumber(e.date) <= MondayNumber + 6
        IN  /\ last.args.today => last.result = Some(SelectSeq(Before, dated_today))
            /\ (last.args.week /\ ~last.args.today) =>
                    last.result = Some(SelectSeq(Before, this_week))

(* on the Sunday, a week list that also carries an unparseable from: the *)
(* event of the Monday that opens the week is returned, the one of the   *)
(* Monday after is not                                                   *)
C20_Witness_WeekEndsToday ==
    /\ Called("list") /\ last.outcome = "ok"
    /\ last.args.week /\ ~last.args.today
    /\ last.args.from_date = Some(BadDate)
    /\ now_date(clock) = Sun02
    /\ Len(Before) = 2
    /\ Before[1].date = Mon24 /\ Before[2].date = Mon03
    /\ last.result = Some(<<Before[1]>>)

(* the texts of the search claims: lower-casing, trimming and containment *)
(* are stated here by position, independently of the operators above     *)
LowerCase(s) ==
    [i \in 1..Len(s) |->
        CASE s[i] = "A" -> "a" [] s[i] = "B" -> "b" [] OTHER -> s[i]]

Trimmed(s) ==
    LET solid == {i \in 1..Len(s) : s[i] # " "}
    IN  IF solid = {} THEN <<>>
        ELSE SubSeq(s, CHOOSE i \in solid : \A j \in solid : i <= j,
                       CHOOSE i \in solid : \A j \in solid : i >= j)

Contains(text, q) ==
    \E i \in 0..(Len(text) - Len(q)) : SubSeq(text, i + 1, i + Len(q)) = q

FieldText(o) == IF o = None THEN <<>> ELSE o[1]

SearchText(e, title_only) ==
    IF title_only THEN LowerCase(e.title)
    ELSE LowerCase(e.title \o <<" ">> \o FieldText(e.description)
                           \o <<" ">> \o FieldText(e.location))

(***************************************************************************)
(* C21: search with an empty or whitespace-only query returns an empty     *)
(* result for any store; for any other query it returns exactly the stored *)
(* events, in store order, whose searchable text contains the trimmed,     *)
(* lower-cased query as a substring, where the searchable text is the      *)
(* lower-cased title when title_only is true and the lower-cased title,    *)
(* description and location joined (by single blanks) otherwise, absent    *)
(* fields counting as empty.                                               *)
(***************************************************************************)
C21_SearchExact ==
    Called("search") =>
        LET q == LowerCase(Trimmed(last.args.query))
            hit(e) == Contains(SearchText(e, last.args.title_only), q)
        IN  last.result = Some(IF q = <<>> THEN <<>> ELSE SelectSeq(Before, hit))

(* a title-only search for "A" over two events that carry the letter only *)
(* in their location or description: nothing is returned, while the same  *)
(* query over all fields returns both                                     *)
C21_Witness_TitleOnlyMissesOtherFields ==
    /\ Called("search") /\ last.args.title_only
    /\ last.args.query = <<"A">>
    /\ Len(Before) = 2
    /\ last.result = Some(<<>>)
    /\ search_events(db, <<"A">>, FALSE) = Before

(***************************************************************************)
(* C22: for all valid inputs that conflict with no stored event, add       *)
(* followed by show of the returned id yields a record whose title, date,  *)
(* start_time, duration, location and description equal the trimmed and    *)
(* normalized inputs, whose conflicts list is empty, and whose end_time    *)
(* equals start_time plus duration minutes as a clock time, wrapping past  *)
(* midnight.  Stated of the state in which the add has just returned: show *)
(* is computed on the store the add left.                                  *)
(***************************************************************************)
TrimmedOrAbsent(o) == IF o = None \/ o[1] = <<>> THEN None ELSE Some(Trimmed(o[1]))

ClockTimeAfter(time, minutes) ==
    LET m == (time[1] * 60 + time[2] + minutes) % 1440
    IN  <<m \div 60, m % 60>>

AddOverlapsNone ==
    \A i \in 1..Len(Before) :
        ~Meet(AddStart(last.args), AddEnd(last.args), StartOf(Before[i]), EndOf(Before[i]))

C22_AddThenShowRoundTrip ==
    (Called("add") /\ AddWellFormed(last.args) /\ AddOverlapsNone) =>
        /\ last.outcome = "ok"
        /\ LET a == last.args
               shown == show_event(load_events(db), last.result[1].id)
           IN  /\ shown # None
               /\ shown[1].event.id = last.result[1].id
               /\ shown[1].event.title = Trimmed(a.title)
               /\ shown[1].event.date = NormalizedDate(a.date)
               /\ shown[1].event.start_time = <<a.time[1], a.time[2]>>
               /\ shown[1].event.duration = a.duration
               /\ shown[1].event.location = TrimmedOrAbsent(a.location)
               /\ shown[1].event.description = TrimmedOrAbsent(a.description)
               /\ shown[1].conflicts = <<>>
               /\ shown[1].end_time = ClockTimeAfter(a.time, a.duration)

(* a padded title, location and description, at 23:30 for 30 minutes, next *)
(* to an event of the same day: shown trimmed, ending at 00:00             *)
C22_Witness_EndsAtMidnight ==
    /\ Called("add") /\ last.outcome = "ok"
    /\ last.args.title = Padded /\ last.args.location = Some(Padded)
    /\ last.args.time = T2330
    /\ Len(Before) = 1
    /\ AddOverlapsNone
    /\ show_event(load_events(db), last.result[1].id)[1].end_time = <<0, 0>>
    /\ show_event(load_events(db), last.result[1].id)[1].event.title = <<"b">>

(***************************************************************************)
(* C23: while a save is under way, a load beside it never sees a           *)
(* half-written store: right after the save has opened the file, and until *)
(* it has closed it, the load returns the whole collection stored before   *)
(* the save or the whole collection being saved, never an empty or partial *)
(* one.  Stated for the step that opens the file.                          *)
(***************************************************************************)
C23_LoadSeesOldOrNew ==
    [][\A p \in Procs :
          SaveOpen(p) => load_events(db') \in {load_events(db), running[p].pending}]_vars

(***************************************************************************)
(* C24: load returns the empty collection, without raising, when the store *)
(* file is missing, cannot be parsed or does not hold a list; an add that  *)
(* succeeds on such a store leaves a store of exactly the one new event.   *)
(***************************************************************************)
NoEventsLoadable(file) == file.state \in {"missing"} \cup DamagedStates

C24_DamagedStoreReadsEmpty ==
    /\ (last.op = "load" /\ NoEventsLoadable(last.prev)) =>
           (last.outcome = "ok" /\ last.result = Some(<<>>))
    /\ (last.op = "add" /\ NoEventsLoadable(last.prev)) => last.outcome # "error"
    /\ (last.op = "add" /\ last.outcome = "ok" /\ NoEventsLoadable(last.prev)) =>
           (db.state = "list" /\ db.events = <<last.result[1]>>)

(* The same for the stores whose text can be read: missing, not JSON, not *)
(* a list.                                                                *)
JsonFaultsReadEmpty ==
    /\ (last.op = "load" /\ last.prev.state \in {"missing", "unparseable", "not_list"}) =>
           (last.outcome = "ok" /\ last.result = Some(<<>>))
    /\ (last.op = "add" /\ last.outcome = "ok"
        /\ last.prev.state \in {"missing", "unparseable", "not_list"}) =>
           (db.state = "list" /\ db.events = <<last.result[1]>>)

(***************************************************************************)
(* C25 as stated: when two adds have both loaded before either saved, and  *)
(* both have returned their event, the persisted store holds both events.  *)
(***************************************************************************)
BothAddedFromSameLoad ==
    /\ \A p \in Procs : running[p].pc = "done" /\ running[p].outcome = "ok"
    /\ running[1].prev = running[2].prev

C25_Original_NoAddLost ==
    BothAddedFromSameLoad =>
        \A p \in Procs : running[p].event \in EventsOf(Persisted)

(***************************************************************************)
(* C25: when two adds have both loaded before either saved and both have   *)
(* returned their event, the store holds what the add that saved last      *)
(* wrote: the events both had loaded and the one event of that add; the    *)
(* event of the other add is not added to it.  When the two saves had the  *)
(* file open at the same time the file may instead be left unparseable.    *)
(***************************************************************************)
C25_LastSaveWins ==
    BothAddedFromSameLoad =>
        LET loaded == IF running[1].prev.state = "list"
                      THEN running[1].prev.events ELSE <<>>
        IN  /\ (~running[1].mixed /\ ~running[2].mixed) => db.state = "list"
            /\ db.state \in {"list", "unparseable"}
            /\ db.state = "list" =>
                  /\ last.op = "add" /\ last.outcome = "ok"
                  /\ \E p \in Procs : last.result = Some(running[p].event)
                  /\ EventsOf(db.events) = EventsOf(loaded) \cup {last.result[1]}
                  /\ Len(db.events) = Len(loaded) + 1

C25_Witness_FirstSavedIsLost ==
    /\ BothAddedFromSameLoad
    /\ ~running[1].mixed /\ ~running[2].mixed
    /\ running[1].event.id # running[2].event.id
    /\ running[1].event \notin EventsOf(Persisted)
    /\ running[2].event \in EventsOf(Persisted)

(***************************************************************************)
(* C26 as stated: every add with valid inputs that has started returns in  *)
(* the end, with its event or with a conflict, whatever the store holds.   *)
(***************************************************************************)
AddUnderWay == running[1].pc \in {"id_loop", "save", "writing"}

AddReturned == running[1].pc = "done" /\ running[1].outcome \in {"ok", "conflict"}

C26_Original_AddAlwaysReturns == AddUnderWay ~> AddReturned

(***************************************************************************)
(* C26: an add with valid inputs that has started returns in the end, with *)
(* its event or with a conflict, when the store it loaded leaves some      *)
(* identifier unused; when the store uses every identifier the add stays   *)
(* in its identifier loop and never returns.                               *)
(***************************************************************************)
SomeIdUnused(events) == \E i \in IdSpace : \A k \in 1..Len(events) : events[k].id # i

InIdLoop == running[1].pc = "id_loop"

C26_AddReturnsIffIdUnused ==
    /\ ((InIdLoop /\ SomeIdUnused(running[1].events)) \/ running[1].pc \in {"save", "writing"})
           ~> AddReturned
    /\ [][(InIdLoop /\ ~SomeIdUnused(running[1].events)) => InIdLoop']_vars

C26_Witness_LastUnusedIdTaken ==
    /\ AddReturned /\ running[1].outcome = "ok"
    /\ Len(load_events(running[1].prev)) = NumIds - 1
    /\ Len(Persisted) = NumIds

FullStoreLoopObserved ==
    /\ InIdLoop /\ ~SomeIdUnused(running[1].events)

(***************************************************************************)
(* C28: agenda in day mode returns exactly the stored events dated on the  *)
(* resolved date (today when no date is given), with total_events their    *)
(* number; agenda in week mode puts every stored event dated from the      *)
(* Monday to the Sunday of the week containing today in exactly one        *)
(* bucket, the one keyed by its date, puts no other event in any bucket,   *)
(* and reports as total_events the sum of the bucket sizes.                *)
(***************************************************************************)
RECURSIVE SumOver(_, _)
SumOver(f, keys) ==
    IF keys = {} THEN 0
    ELSE LET k == CHOOSE x \in keys : TRUE
         IN  Len(f[k]) + SumOver(f, keys \ {k})

C28_AgendaDayAndWeek ==
    (Called("agenda") /\ last.outcome = "ok") =>
        LET r == last.result[1]
            this_week(e) == /\ DayNumber(e.date) >= MondayNumber
                            /\ DayNumber(e.date) <= MondayNumber + 6
        IN  IF last.args.week
            THEN LET buckets == r.events_by_date
                 IN  /\ r.type = "week"
                     /\ \A i \in 1..Len(Before) :
                            LET places == {<<d, k>> \in (DOMAIN buckets) \X (1..Len(Before)) :
                                              /\ k <= Len(buckets[d])
                                              /\ buckets[d][k] = Before[i]}
                            IN  IF this_week(Before[i])
                                THEN \E k \in 1..Len(Before) : places = {<<Before[i].date, k>>}
                                ELSE places = {}
                     /\ \A d \in DOMAIN buckets : buckets[d] # <<>>
                     /\ r.total_events = SumOver(buckets, DOMAIN buckets)
                     /\ r.total_events =
                            Cardinality({i \in 1..Len(Before) : this_week(Before[i])})
            ELSE LET resolved == IF Given(last.args.date)
                                 THEN DayNumber(NormalizedDate(last.args.date[1]))
                                 ELSE TodayNumber
                     on_resolved(e) == DayNumber(e.date) = resolved
                 IN  /\ r.type = "day"
                     /\ DayNumber(r.date) = resolved
                     /\ r.events = SelectSeq(Before, on_resolved)
                     /\ r.total_events = Len(r.events)

(* on the Sunday, a week agenda of two events of that Sunday: one bucket *)
(* of two                                                                *)
C28_Witness_TwoInOneBucket ==
    /\ Called("agenda") /\ last.outcome = "ok" /\ last.args.week
    /\ now_date(clock) = Sun02
    /\ Len(Before) = 2
    /\ DOMAIN last.result[1].events_by_date = {Sun02}
    /\ last.result[1].events_by_date[Sun02] = Before
    /\ last.result[1].total_events = 2

(***************************************************************************)
(* C29: on one store and for one query, every event returned by a search   *)
(* of the titles only is also returned by the search of all fields.        *)
(***************************************************************************)
C29_TitleOnlyWithinAllFields ==
    Called("search") =>
        LET query == last.args.query
            found == last.result[1]
        IN  /\ last.args.title_only =>
                EventsOf(found) \subseteq EventsOf(search_events(last.prev, query, FALSE))
            /\ ~last.args.title_only =>
                EventsOf(search_events(last.prev, query, TRUE)) \subseteq EventsOf(found)

(* a search of the titles that finds one of two stored events, the search *)
(* of all fields finding both                                             *)
C29_Witness_TitleOnlyFindsFewer ==
    /\ Called("search") /\ last.args.title_only
    /\ Len(Before) = 2
    /\ Len(last.result[1]) = 1
    /\ search_events(last.prev, last.args.query, FALSE) = Before

(***************************************************************************)
(* C30 as stated: every event returned by a search of all fields carries   *)
(* the query inside one single field among title, description and          *)
(* location.                                                               *)
(***************************************************************************)
InOneField(e, q) ==
    \/ Contains(LowerCase(e.title), q)
    \/ Contains(LowerCase(FieldText(e.description)), q)
    \/ Contains(LowerCase(FieldText(e.location)), q)

C30_Original_MatchInsideOneField ==
    (Called("search") /\ ~last.args.title_only) =>
        \A i \in 1..Len(last.result[1]) :
            InOneField(last.result[1][i], LowerCase(Trimmed(last.args.query)))

(***************************************************************************)
(* C30: every event returned by a search of all fields carries the         *)
(* trimmed, lower-cased query in the lower-cased text made of its title,   *)
(* description and location joined by single blanks; when the query holds  *)
(* no blank the match lies inside one single field, and only a query that  *)
(* holds a blank can match across the boundary between two fields.         *)
(***************************************************************************)
C30_MatchInJoinedText ==
    (Called("search") /\ ~last.args.title_only) =>
        LET q == LowerCase(Trimmed(last.args.query))
        IN  \A i \in 1..Len(last.result[1]) :
                LET e == last.result[1][i]
                IN  /\ Contains(SearchText(e, FALSE), q)
                    /\ (\A k \in 1..Len(q) : q[k] # " ") => InOneField(e, q)

(* the query "a b" finds the event with title "a" and description "B",  *)
(* which carries it in no single field                                  *)
C30_Witness_MatchAcrossFields ==
    /\ Called("search") /\ ~last.args.title_only
    /\ last.args.query = <<"a", " ", "b">>
    /\ Len(last.result[1]) = 1
    /\ last.result[1][1].title = <<"a">>
    /\ last.result[1][1].description = Some(<<"B">>)
    /\ ~InOneField(last.result[1][1], <<"a", " ", "b">>)

(***************************************************************************)
(* C27: list, show, search and agenda never save, and add, edit and delete *)
(* that end in a validation, parse or conflict error or in not-found never *)
(* save: the store file is the same before and after them (a missing file  *)
(* stays missing).  A successful add, edit or delete leaves the file as    *)
(* one save of its result writes it: the stored events with the new event  *)
(* added, the edited event replaced, the deleted event removed, and        *)
(* nothing else changed.                                                   *)
(***************************************************************************)
ReadOnlyOps == {"list", "show", "search", "agenda"}

FailureOutcomes == {"validation", "parse", "conflict", "not_found"}

OthersThan(events, id) == {e \in EventsOf(events) : e.id # id}

C27_SaveDiscipline ==
    last # Idle =>
        /\ last.op \in ReadOnlyOps => db = last.prev
        /\ last.outcome \in FailureOutcomes => db = last.prev
        /\ (last.op = "add" /\ last.outcome = "ok") =>
               /\ db.state = "list"
               /\ Len(db.events) = Len(Before) + 1
               /\ EventsOf(db.events) = EventsOf(Before) \cup {last.result[1]}
        /\ (last.op = "edit" /\ last.outcome = "ok") =>
               /\ db.state = "list"
               /\ Len(db.events) = Len(Before)
               /\ last.result[1].id = last.args.event_id
               /\ last.result[1] \in EventsOf(db.events)
               /\ OthersThan(db.events, last.args.event_id)
                      = OthersThan(Before, last.args.event_id)
        /\ (last.op = "delete" /\ last.outcome = "ok") =>
               /\ db.state = "list"
               /\ Len(db.events) = Len(Before) - 1
               /\ last.result[1].id = last.args.event_id
               /\ EventsOf(db.events) = EventsOf(Before) \ {last.result[1]}
        /\ (last.op = "delete_by_date" /\ last.outcome = "ok") =>
               IF last.result[1] = <<>> THEN db = last.prev
               ELSE /\ db.state = "list"
                    /\ Len(db.events) = Len(Before) - Len(last.result[1])

(* the only stored event is deleted: the file is written, with an empty *)
(* list                                                                 *)
C27_Witness_LastEventDeleted ==
    /\ Called("delete") /\ last.outcome = "ok"
    /\ Len(Before) = 1
    /\ db = [state |-> "list", events |-> <<>>]

(* an edit that runs into a conflict on a store of two events, and an add *)
(* refused on a store that does not exist yet: nothing is written         *)
FailuresLeaveStoreObserved ==
    \/ /\ Called("edit") /\ last.outcome = "conflict" /\ Len(Before) = 2 /\ db = last.prev
    \/ /\ Called("add") /\ last.outcome = "validation" /\ db.state = "missing"

====
